---- MODULE Spec2Model ----
(***************************************************************************)
(* Model of the reconciliation engine of the AI security scanner:          *)
(* src/src/consensus/consensus_engine.py, class ConsensusEngine, and of    *)
(* the thread pool that gathers the reviewers' records for it:             *)
(* src/src/agents/agent_manager.py, AgentManager.analyze_code_multi_agent. *)
(*                                                                         *)
(* A Python dict is a function whose domain is the set of keys present,    *)
(* so an absent key is a key outside DOMAIN.  A finding is such a dict.    *)
(* Every finding is an object of its own (json.loads builds each one,      *)
(* foundry_agent.py:208-213); the objects live in `heap`, and the lists    *)
(* of the program hold references (indices of `heap`).                     *)
(* A confidence is held in hundredths: 90 stands for 0.90.                 *)
(* A description is held as the sequence of its whitespace-separated       *)
(* tokens, in the letter case the reviewer wrote them.                     *)
(***************************************************************************)
EXTENDS Integers, Sequences, FiniteSets, TLC

VARIABLES
    agent_results,      \* build_consensus: the argument, a list of reviewer records
    heap,               \* the finding objects, by reference
    heap0,              \* history: the finding objects as the caller passed them
    min_agreement,      \* self.min_agreement
    pc,                 \* position of build_consensus
    all_findings,       \* build_consensus: list of references
    clusters,           \* finding_clusters: list of lists of positions of all_findings
    idx,                \* position of the loop over finding_clusters
    consensus_findings, \* build_consensus: list of dicts (copies)
    rejected_findings,  \* build_consensus: list of references
    result,             \* build_consensus: the dict returned
    finding1,           \* _are_similar: first argument
    finding2,           \* _are_similar: second argument
    verdict,            \* _are_similar: value returned, for both argument orders
    agents,             \* AgentManager.agents: the names of the configured agents
    futures,            \* analyze_code_multi_agent: the futures, in submission order
    yielded,            \* the futures as_completed has yielded, in that order
    manager_results,    \* analyze_code_multi_agent: the list `results`
    mpc                 \* position of analyze_code_multi_agent

vars == <<agent_results, heap, heap0, min_agreement, pc, all_findings,
          clusters, idx, consensus_findings, rejected_findings,
          result, finding1, finding2, verdict,
          agents, futures, yielded, manager_results, mpc>>

engineVars == <<agent_results, heap, heap0, min_agreement, pc, all_findings,
                clusters, idx, consensus_findings, rejected_findings, result>>

simVars == <<finding1, finding2, verdict>>

poolVars == <<agents, futures, yielded, manager_results, mpc>>

(***************************************************************************)
(* Bounds of the model.                                                    *)
(***************************************************************************)
\* reviewer records in agent_results
MaxAgents == 2
\* findings in all the records together
MaxFindings == 3
\* min_agreement ranges over 1..MaxAgreement
MaxAgreement == 3

(***************************************************************************)
(* Python dicts.                                                           *)
(***************************************************************************)
EmptyDict == <<>>

\* dict.get(k, default)
Get(d, k, default) == IF k \in DOMAIN d THEN d[k] ELSE default

\* d[k] = v
Put(d, k, v) == [x \in (DOMAIN d) \cup {k} |-> IF x = k THEN v ELSE d[x]]

\* dict.get(k) with no default returns None
None == "<None>"

\* set(list)
ToSet(s) == {s[i] : i \in DOMAIN s}

Abs(n) == IF n < 0 THEN -n ELSE n

(***************************************************************************)
(* Thresholds of the similarity test and the default confidence.           *)
(***************************************************************************)
LineWindow == 5
CommonWordLimit == 3
DefaultConfidence == 50

(***************************************************************************)
(* str.lower() on the tokens of the vocabulary.                            *)
(***************************************************************************)
LowerWord(w) ==
    CASE w = "SQL" -> "sql"
      [] w = "Injection" -> "injection"
      [] w = "XSS" -> "xss"
      [] w = "Login" -> "login"
      [] OTHER -> w

\* set(desc.lower().split())
WordSet(desc) == {LowerWord(desc[i]) : i \in DOMAIN desc}

(***************************************************************************)
(* ConsensusEngine._are_similar                                            *)
(***************************************************************************)
CweOverlap(finding_a, finding_b) ==
    LET cwe1 == ToSet(Get(finding_a, "cwe", <<>>))
        cwe2 == ToSet(Get(finding_b, "cwe", <<>>))
    IN  /\ cwe1 # {}
        /\ cwe2 # {}
        \* len(cwe1 & cwe2) / len(cwe1 | cwe2) > 0.5
        /\ 2 * Cardinality(cwe1 \cap cwe2) > Cardinality(cwe1 \cup cwe2)

\* a variant of the location check with `<=` for `<`
LocationCloseInclusive(finding_a, finding_b) ==
    LET target1 == Get(finding_a, "target", EmptyDict)
        target2 == Get(finding_b, "target", EmptyDict)
        line1 == Get(target1, "start_line", 0)
        line2 == Get(target2, "start_line", 0)
    IN  /\ Get(target1, "file_path", None) = Get(target2, "file_path", None)
        /\ Abs(line1 - line2) <= LineWindow

\* a variant of the location check without abs()
LocationCloseSigned(finding_a, finding_b) ==
    LET target1 == Get(finding_a, "target", EmptyDict)
        target2 == Get(finding_b, "target", EmptyDict)
        line1 == Get(target1, "start_line", 0)
        line2 == Get(target2, "start_line", 0)
    IN  /\ Get(target1, "file_path", None) = Get(target2, "file_path", None)
        /\ line1 - line2 < LineWindow

\* a variant of the location check that needs a file path on both sides
LocationCloseWithPaths(finding_a, finding_b) ==
    LET target1 == Get(finding_a, "target", EmptyDict)
        target2 == Get(finding_b, "target", EmptyDict)
        line1 == Get(target1, "start_line", 0)
        line2 == Get(target2, "start_line", 0)
    IN  /\ "file_path" \in DOMAIN target1
        /\ "file_path" \in DOMAIN target2
        /\ target1["file_path"] = target2["file_path"]
        /\ Abs(line1 - line2) < LineWindow

\* lines 105-114
LocationClose(finding_a, finding_b) ==
    LET target1 == Get(finding_a, "target", EmptyDict)
        target2 == Get(finding_b, "target", EmptyDict)
        line1 == Get(target1, "start_line", 0)
        line2 == Get(target2, "start_line", 0)
    IN  /\ Get(target1, "file_path", None) = Get(target2, "file_path", None)
        /\ Abs(line1 - line2) < LineWindow

DescriptionOverlap(finding_a, finding_b) ==
    LET desc1 == Get(finding_a, "finding_description", <<>>)
        desc2 == Get(finding_b, "finding_description", <<>>)
        common_words == WordSet(desc1) \cap WordSet(desc2)
    IN  Cardinality(common_words) > CommonWordLimit

AreSimilar(finding_a, finding_b) ==
    IF CweOverlap(finding_a, finding_b) THEN TRUE
    ELSE IF LocationClose(finding_a, finding_b) THEN TRUE
    ELSE IF DescriptionOverlap(finding_a, finding_b) THEN TRUE
    ELSE FALSE

(***************************************************************************)
(* The findings _are_similar is applied to: every combination of the       *)
(* three fields it reads, each absent or present.                          *)
(***************************************************************************)
CweChoices ==
    { <<>>,
      <<"CWE-89">>,
      <<"CWE-89", "CWE-89">>,
      <<"CWE-89", "CWE-79">>,
      <<"CWE-79", "CWE-89", "CWE-20">>,
      <<"CWE-22">> }

TargetChoices ==
    { EmptyDict,
      [file_path |-> "app.py", start_line |-> 10],
      [file_path |-> "app.py", start_line |-> 12],
      [file_path |-> "app.py", start_line |-> 15],
      [file_path |-> "db.py", start_line |-> 10],
      [file_path |-> "app.py"],
      [start_line |-> 5] }

DescriptionChoices ==
    { <<>>,
      <<"SQL", "Injection", "in", "login", "query">>,
      <<"sql", "injection", "in", "Login", "form">>,
      <<"sql", "injection", "in", "user", "form">>,
      <<"sql", "sql", "injection", "in", "in">>,
      <<"XSS", "in", "template">> }

\* the dict with key k when present, the empty dict otherwise
Field(k, present, v) == IF present THEN (k :> v) ELSE EmptyDict

SimilarityInputs ==
    { Field("cwe", hc, c) @@ Field("target", ht, t)
        @@ Field("finding_description", hd, d) :
        <<hc, c>> \in ({TRUE} \X CweChoices) \cup {<<FALSE, <<>> >>},
        <<ht, t>> \in ({TRUE} \X TargetChoices) \cup {<<FALSE, EmptyDict>>},
        <<hd, d>> \in ({TRUE} \X DescriptionChoices) \cup {<<FALSE, <<>> >>} }

NoVerdict == [done |-> FALSE, forward |-> FALSE, backward |-> FALSE]

InitSim ==
    /\ finding1 \in SimilarityInputs
    /\ finding2 \in SimilarityInputs
    /\ verdict = NoVerdict
    /\ agent_results = <<>>
    /\ heap = <<>>
    /\ heap0 = <<>>
    /\ min_agreement = 2
    /\ pc = "idle"
    /\ all_findings = <<>>
    /\ clusters = <<>>
    /\ idx = 0
    /\ consensus_findings = <<>>
    /\ rejected_findings = <<>>
    /\ result = EmptyDict
    /\ agents = <<>>
    /\ futures = <<>>
    /\ yielded = <<>>
    /\ manager_results = <<>>
    /\ mpc = "idle"

\* one call of _are_similar in each argument order
Compare ==
    /\ ~verdict.done
    /\ verdict' = [done |-> TRUE,
                   forward |-> AreSimilar(finding1, finding2),
                   backward |-> AreSimilar(finding2, finding1)]
    /\ UNCHANGED <<finding1, finding2>>
    /\ UNCHANGED <<engineVars, poolVars>>

NextSim == Compare

SpecSim == InitSim /\ [][NextSim]_vars

(***************************************************************************)
(* The findings the reviewers report, as _parse_findings hands them over   *)
(* (the JSON format of foundry_agent.py:144-164).                          *)
(***************************************************************************)
FindingA ==
    [finding_description |-> <<"SQL", "Injection", "in", "login", "query">>,
     severity |-> "Critical",
     cwe |-> <<"CWE-89">>,
     target |-> [file_path |-> "app.py", start_line |-> 10],
     recommendation |-> [rationale |-> "bind the parameters"],
     confidence |-> 90]

FindingB ==
    [finding_description |-> <<"XSS", "in", "template">>,
     severity |-> "High",
     cwe |-> <<"CWE-79">>,
     target |-> [file_path |-> "app.py", start_line |-> 12]]

\* a location without a file path
FindingC ==
    [finding_description |-> <<"path", "traversal", "on", "upload">>,
     severity |-> "Medium",
     cwe |-> <<"CWE-89", "CWE-79">>,
     target |-> [start_line |-> 3],
     recommendation |-> [rationale |-> "escape the output"],
     confidence |-> 30]

FindingD ==
    [finding_description |-> <<"sql", "injection", "in", "Login", "form">>,
     severity |-> "Low",
     confidence |-> 70]

ReportedFindings == {FindingA, FindingB, FindingC, FindingD}

(***************************************************************************)
(* The reviewer records analyze_code_multi_agent collects.                 *)
(***************************************************************************)
AgentName(k) == "agent" \o ToString(k)

\* foundry_agent.py:209-214 and 218-224 (the keys build_consensus reads)
ParsedRecord(k, refs) == [agent |-> AgentName(k), findings |-> refs]

\* agent_manager.py:82-86
FailedRecord(k) == [agent |-> AgentName(k), error |-> "failed", findings |-> <<>>]

\* foundry_agent.py:122
NoResponseRecord == [findings |-> <<>>, error |-> "No response from agent"]

\* a record with no findings key, which result.get('findings', []) allows
BareRecord(k) == [agent |-> AgentName(k), error |-> "failed"]

Shapes == {"parsed", "failed", "no_response", "bare"}

ReviewerRecord(k, shape, refs) ==
    CASE shape = "parsed" -> ParsedRecord(k, refs)
      [] shape = "failed" -> FailedRecord(k)
      [] shape = "no_response" -> NoResponseRecord
      [] OTHER -> BareRecord(k)

\* the references i of 1..n with owner[i] = k, in increasing order
RECURSIVE RefsOf(_, _, _, _)
RefsOf(owner, k, i, n) ==
    IF i > n THEN <<>>
    ELSE (IF owner[i] = k THEN <<i>> ELSE <<>>) \o RefsOf(owner, k, i + 1, n)

(***************************************************************************)
(* build_consensus, lines 28-35: flatten the findings of every record and  *)
(* write each finding's source_agent.                                      *)
(***************************************************************************)
\* the inner loop over one record's findings
RECURSIVE CollectRecord(_, _, _, _)
CollectRecord(agent_name, refs, j, acc) ==
    IF j > Len(refs) THEN acc
    ELSE CollectRecord(agent_name, refs, j + 1,
            [all_findings |-> Append(acc.all_findings, refs[j]),
             heap |-> [acc.heap EXCEPT
                          ![refs[j]] = Put(@, "source_agent", agent_name)]])

\* a variant of the outer loop that stops at the first record with an error
RECURSIVE CollectUntilError(_, _, _)
CollectUntilError(results, k, acc) ==
    IF k > Len(results) \/ "error" \in DOMAIN results[k] THEN acc
    ELSE CollectUntilError(results, k + 1,
            CollectRecord(Get(results[k], "agent", "unknown"),
                          Get(results[k], "findings", <<>>), 1, acc))

\* the outer loop over the records
RECURSIVE CollectFrom(_, _, _)
CollectFrom(results, k, acc) ==
    IF k > Len(results) THEN acc
    ELSE CollectFrom(results, k + 1,
            CollectRecord(Get(results[k], "agent", "unknown"),
                          Get(results[k], "findings", <<>>), 1, acc))

CollectFindings(results, h) ==
    CollectFrom(results, 1, [all_findings |-> <<>>, heap |-> h])

\* the finding objects a list of references names
Deref(refs, h) == [i \in DOMAIN refs |-> h[refs[i]]]

(***************************************************************************)
(* ConsensusEngine._cluster_findings.  Positions count from 1.             *)
(***************************************************************************)
\* a variant of the scan that leaves out the test `j in used_indices`
RECURSIVE ScanSeedIgnoringUsed(_, _, _, _)
ScanSeedIgnoringUsed(findings, i, j, acc) ==
    IF j > Len(findings) THEN acc
    ELSE IF i = j THEN ScanSeedIgnoringUsed(findings, i, j + 1, acc)
    ELSE IF AreSimilar(findings[i], findings[j])
         THEN ScanSeedIgnoringUsed(findings, i, j + 1,
                 [cluster |-> Append(acc.cluster, j), used |-> acc.used \cup {j}])
         ELSE ScanSeedIgnoringUsed(findings, i, j + 1, acc)

\* a variant of the scan that compares with the member added last
RECURSIVE ScanSeedChained(_, _, _, _)
ScanSeedChained(findings, i, j, acc) ==
    IF j > Len(findings) THEN acc
    ELSE IF j \in acc.used \/ i = j THEN ScanSeedChained(findings, i, j + 1, acc)
    ELSE IF AreSimilar(findings[acc.cluster[Len(acc.cluster)]], findings[j])
         THEN ScanSeedChained(findings, i, j + 1,
                 [cluster |-> Append(acc.cluster, j), used |-> acc.used \cup {j}])
         ELSE ScanSeedChained(findings, i, j + 1, acc)

\* lines 79-85: the scan of one seed i over every position j
RECURSIVE ScanSeed(_, _, _, _)
ScanSeed(findings, i, j, acc) ==
    IF j > Len(findings) THEN acc
    ELSE IF j \in acc.used \/ i = j THEN ScanSeed(findings, i, j + 1, acc)
    ELSE IF AreSimilar(findings[i], findings[j])
         THEN ScanSeed(findings, i, j + 1,
                 [cluster |-> Append(acc.cluster, j), used |-> acc.used \cup {j}])
         ELSE ScanSeed(findings, i, j + 1, acc)

\* lines 76-87: one pass of the outer loop for an unused position i
OpenCluster(findings, i, used) ==
    ScanSeed(findings, i, 1, [cluster |-> <<i>>, used |-> used \cup {i}])

\* a variant of the outer loop that puts each new cluster in front
RECURSIVE ClusterFromNewestFirst(_, _, _, _)
ClusterFromNewestFirst(findings, i, used, acc) ==
    IF i > Len(findings) THEN acc
    ELSE IF i \in used THEN ClusterFromNewestFirst(findings, i + 1, used, acc)
    ELSE LET opened == OpenCluster(findings, i, used)
         IN  ClusterFromNewestFirst(findings, i + 1, opened.used,
                                    <<opened.cluster>> \o acc)

\* lines 72-89: the outer loop from position i on
RECURSIVE ClusterFrom(_, _, _, _)
ClusterFrom(findings, i, used, acc) ==
    IF i > Len(findings) THEN acc
    ELSE IF i \in used THEN ClusterFrom(findings, i + 1, used, acc)
    ELSE LET opened == OpenCluster(findings, i, used)
         IN  ClusterFrom(findings, i + 1, opened.used, Append(acc, opened.cluster))

ClusterFindings(findings) == ClusterFrom(findings, 1, {}, <<>>)

(***************************************************************************)
(* ConsensusEngine._build_consensus_finding                                *)
(***************************************************************************)
Confidence(f) == Get(f, "confidence", DefaultConfidence)

\* a variant of max() that keeps the last of several greatest elements
RECURSIVE MaxFromLast(_, _, _)
MaxFromLast(cluster, j, best) ==
    IF j > Len(cluster) THEN best
    ELSE IF Confidence(cluster[j]) >= Confidence(cluster[best])
         THEN MaxFromLast(cluster, j + 1, j)
         ELSE MaxFromLast(cluster, j + 1, best)

\* max(cluster, key=...): the first element no later element exceeds
RECURSIVE MaxFrom(_, _, _)
MaxFrom(cluster, j, best) ==
    IF j > Len(cluster) THEN best
    ELSE IF Confidence(cluster[j]) > Confidence(cluster[best])
         THEN MaxFrom(cluster, j + 1, j)
         ELSE MaxFrom(cluster, j + 1, best)

BaseIndex(cluster) == MaxFrom(cluster, 2, 1)

RECURSIVE SumConfidence(_, _)
SumConfidence(cluster, j) ==
    IF j > Len(cluster) THEN 0
    ELSE Confidence(cluster[j]) + SumConfidence(cluster, j + 1)

\* a rounding that drops the digits after the second decimal place
Round2Truncated(total, count) == total \div count

\* round(total / count, 2) in hundredths: the nearest hundredth (no mean of
\* the reported confidences lies halfway between two hundredths)
Round2(total, count) == (2 * total + count) \div (2 * count)

BuildConsensusFinding(cluster) ==
    LET base_finding == cluster[BaseIndex(cluster)]
        source_agents == [j \in DOMAIN cluster |-> cluster[j]["source_agent"]]
    IN  Put(base_finding, "consensus_info",
            [source_agents |-> source_agents,
             agreement_count |-> Len(cluster),
             consensus_confidence |-> Round2(SumConfidence(cluster, 1), Len(cluster)),
             verified |-> TRUE])

(***************************************************************************)
(* build_consensus, lines 44-53: the decision on one cluster.              *)
(***************************************************************************)
\* f"Only {len(cluster)} agent(s) agreed"
RejectionReason(size) == "Only " \o ToString(size) \o " agent(s) agreed"

\* a variant of the rejection that records the first member of the cluster only
RejectFirstOnly(refs, cluster, j, acc) ==
    [acc EXCEPT
        !.heap[refs[cluster[1]]] =
            Put(@, "rejection_reason", RejectionReason(Len(cluster))),
        !.rejected_findings = Append(@, refs[cluster[1]])]

\* lines 51-53: the loop over the members of a rejected cluster
RECURSIVE RejectFrom(_, _, _, _)
RejectFrom(refs, cluster, j, acc) ==
    IF j > Len(cluster) THEN acc
    ELSE RejectFrom(refs, cluster, j + 1,
            [acc EXCEPT
                !.heap[refs[cluster[j]]] =
                    Put(@, "rejection_reason", RejectionReason(Len(cluster))),
                !.rejected_findings = Append(@, refs[cluster[j]])])

AcceptInto(refs, cluster, acc) ==
    [acc EXCEPT
        !.consensus_findings =
            Append(@, BuildConsensusFinding(
                          [j \in DOMAIN cluster |-> acc.heap[refs[cluster[j]]]]))]

\* a variant of the decision with `>` for `>=`
DecideClusterStrict(refs, cluster, threshold, acc) ==
    IF Len(cluster) > threshold
    THEN AcceptInto(refs, cluster, acc)
    ELSE RejectFrom(refs, cluster, 1, acc)

\* a variant of the decision with the comparison inverted
DecideClusterInverted(refs, cluster, threshold, acc) ==
    IF Len(cluster) <= threshold
    THEN AcceptInto(refs, cluster, acc)
    ELSE RejectFrom(refs, cluster, 1, acc)

\* lines 45-53: acc holds heap, consensus_findings and rejected_findings
DecideCluster(refs, cluster, threshold, acc) ==
    IF Len(cluster) >= threshold
    THEN AcceptInto(refs, cluster, acc)
    ELSE RejectFrom(refs, cluster, 1, acc)

\* lines 55-65
Assemble(results, threshold, refs, consensus, rejected) ==
    [consensus_findings |-> consensus,
     rejected_findings |-> rejected,
     total_agents |-> Len(results),
     agreement_threshold |-> threshold,
     statistics |-> [total_findings |-> Len(refs),
                     consensus_count |-> Len(consensus),
                     rejected_count |-> Len(rejected)]]

(***************************************************************************)
(* build_consensus as one function of its argument, the finding objects    *)
(* and the threshold: the result returned and the objects as it leaves     *)
(* them.                                                                   *)
(***************************************************************************)
RECURSIVE DecideFrom(_, _, _, _, _)
DecideFrom(refs, cls, k, threshold, acc) ==
    IF k > Len(cls) THEN acc
    ELSE DecideFrom(refs, cls, k + 1, threshold,
                    DecideCluster(refs, cls[k], threshold, acc))

BuildConsensus(results, h, threshold) ==
    LET collected == CollectFindings(results, h)
        refs == collected.all_findings
        cls == ClusterFindings(Deref(refs, collected.heap))
        decided == DecideFrom(refs, cls, 1, threshold,
                      [heap |-> collected.heap,
                       consensus_findings |-> <<>>,
                       rejected_findings |-> <<>>])
    IN  [result |-> Assemble(results, threshold, refs,
                             decided.consensus_findings,
                             decided.rejected_findings),
         heap |-> decided.heap]

(***************************************************************************)
(* One call of build_consensus, step by step.                              *)
(***************************************************************************)
Init ==
    /\ \E n \in 0..MaxFindings, a \in 0..MaxAgents :
         \E owner \in [1..n -> 1..a] :
            /\ \A i \in 1..n, j \in 1..n : i < j => owner[i] <= owner[j]
            /\ \E empty_shape \in Shapes :
                  agent_results =
                     [k \in 1..a |->
                        LET refs == RefsOf(owner, k, 1, n)
                        IN  ReviewerRecord(
                               k, IF refs = <<>> THEN empty_shape ELSE "parsed", refs)]
            /\ heap \in [1..n -> ReportedFindings]
            /\ heap0 = heap
    /\ min_agreement \in 1..MaxAgreement
    /\ pc = "collect"
    /\ all_findings = <<>>
    /\ clusters = <<>>
    /\ idx = 1
    /\ consensus_findings = <<>>
    /\ rejected_findings = <<>>
    /\ result = EmptyDict
    /\ finding1 = EmptyDict
    /\ finding2 = EmptyDict
    /\ verdict = NoVerdict
    /\ agents = <<>>
    /\ futures = <<>>
    /\ yielded = <<>>
    /\ manager_results = <<>>
    /\ mpc = "idle"

\* lines 28-35
Collect ==
    /\ pc = "collect"
    /\ LET collected == CollectFindings(agent_results, heap)
       IN  /\ all_findings' = collected.all_findings
           /\ heap' = collected.heap
    /\ pc' = "cluster"
    /\ UNCHANGED <<agent_results, heap0, min_agreement, clusters, idx,
                   consensus_findings, rejected_findings, result>>
    /\ UNCHANGED <<simVars, poolVars>>

\* line 38: the call of _cluster_findings
Cluster ==
    /\ pc = "cluster"
    /\ clusters' = ClusterFindings(Deref(all_findings, heap))
    /\ pc' = "decide"
    /\ idx' = 1
    /\ UNCHANGED <<agent_results, heap, heap0, min_agreement, all_findings,
                   consensus_findings, rejected_findings, result>>
    /\ UNCHANGED <<simVars, poolVars>>

DecideAt(k) ==
    DecideCluster(all_findings, clusters[k], min_agreement,
                  [heap |-> heap,
                   consensus_findings |-> consensus_findings,
                   rejected_findings |-> rejected_findings])

\* lines 45-48
AcceptCluster ==
    /\ pc = "decide"
    /\ idx <= Len(clusters)
    /\ Len(clusters[idx]) >= min_agreement
    /\ heap' = DecideAt(idx).heap
    /\ consensus_findings' = DecideAt(idx).consensus_findings
    /\ rejected_findings' = DecideAt(idx).rejected_findings
    /\ idx' = idx + 1
    /\ UNCHANGED <<agent_results, heap0, min_agreement, pc, all_findings,
                   clusters, result>>
    /\ UNCHANGED <<simVars, poolVars>>

\* lines 49-53
RejectCluster ==
    /\ pc = "decide"
    /\ idx <= Len(clusters)
    /\ ~(Len(clusters[idx]) >= min_agreement)
    /\ heap' = DecideAt(idx).heap
    /\ consensus_findings' = DecideAt(idx).consensus_findings
    /\ rejected_findings' = DecideAt(idx).rejected_findings
    /\ idx' = idx + 1
    /\ UNCHANGED <<agent_results, heap0, min_agreement, pc, all_findings,
                   clusters, result>>
    /\ UNCHANGED <<simVars, poolVars>>

\* lines 55-65
Return ==
    /\ pc = "decide"
    /\ idx > Len(clusters)
    /\ result' = Assemble(agent_results, min_agreement, all_findings,
                          consensus_findings, rejected_findings)
    /\ pc' = "done"
    /\ UNCHANGED <<agent_results, heap, heap0, min_agreement, all_findings,
                   clusters, idx, consensus_findings, rejected_findings>>
    /\ UNCHANGED <<simVars, poolVars>>

Next ==
    \/ Collect
    \/ Cluster
    \/ AcceptCluster
    \/ RejectCluster
    \/ Return

Spec == Init /\ [][Next]_vars

\* the step-by-step call returns what the function returns
StepwiseAgrees ==
    pc = "done" =>
        /\ result = BuildConsensus(agent_results, heap0, min_agreement).result
        /\ heap = BuildConsensus(agent_results, heap0, min_agreement).heap

(***************************************************************************)
(* The engine in both uses: a run of build_consensus, or one comparison    *)
(* of two findings of any shape.                                           *)
(***************************************************************************)
InitEngine == Init \/ InitSim

NextEngine == Next \/ NextSim

SpecEngine == InitEngine /\ [][NextEngine]_vars

(***************************************************************************)
(* AgentManager.analyze_code_multi_agent, agent_manager.py:44-88: one      *)
(* future per agent on a pool of len(self.agents) worker threads.  The     *)
(* workers run beside the submitting thread, so a future may start and     *)
(* finish at any moment after its submission; as_completed yields every    *)
(* finished future once, in an order the scheduling decides.               *)
(***************************************************************************)
\* str(e) of the exceptions analyze_code raises
Exceptions == {"failed", "timed out"}

\* lines 82-86
ErrorRecord(agent_name, e) ==
    [agent |-> agent_name, error |-> e, findings |-> <<>>]

\* analyze_code of the k-th agent: the record it returns or the exception
\* it raises (foundry_agent.py:57-122)
AnalyzeCode(k) ==
    { [raised |-> FALSE, value |-> r] :
        r \in {ParsedRecord(k, <<k>>), ParsedRecord(k, <<>>), NoResponseRecord} }
    \cup { [raised |-> TRUE, value |-> e] : e \in Exceptions }

\* a future: PENDING, RUNNING or FINISHED with a result or an exception
NewFuture == [state |-> "pending", raised |-> FALSE, value |-> None]

HandleFutureDroppingFailure(acc, agent_name, future) ==
    IF future.raised
    THEN acc
    ELSE Append(acc, future.value)

\* lines 75-86: the body of the loop over as_completed
HandleFuture(acc, agent_name, future) ==
    IF future.raised
    THEN Append(acc, ErrorRecord(agent_name, future.value))
    ELSE Append(acc, future.value)

InitPool ==
    /\ \E n \in 0..MaxAgents :
         /\ agents = [k \in 1..n |-> AgentName(k)]
         /\ heap = [k \in 1..n |-> FindingA]
    /\ heap0 = heap
    /\ futures = <<>>
    /\ yielded = <<>>
    /\ manager_results = <<>>
    /\ mpc = "open"
    /\ agent_results = <<>>
    /\ min_agreement = 2
    /\ pc = "idle"
    /\ all_findings = <<>>
    /\ clusters = <<>>
    /\ idx = 0
    /\ consensus_findings = <<>>
    /\ rejected_findings = <<>>
    /\ result = EmptyDict
    /\ finding1 = EmptyDict
    /\ finding2 = EmptyDict
    /\ verdict = NoVerdict

\* line 60: ThreadPoolExecutor raises ValueError unless max_workers > 0
OpenPool ==
    /\ mpc = "open"
    /\ mpc' = IF Len(agents) > 0 THEN "submit" ELSE "raised"
    /\ UNCHANGED <<agents, futures, yielded, manager_results>>
    /\ UNCHANGED <<engineVars, simVars>>

\* lines 62-71: the next executor.submit of the dict comprehension
Submit ==
    /\ mpc = "submit"
    /\ futures' = Append(futures, NewFuture)
    /\ mpc' = IF Len(futures) + 1 = Len(agents) THEN "collect" ELSE "submit"
    /\ UNCHANGED <<agents, yielded, manager_results>>
    /\ UNCHANGED <<engineVars, simVars>>

\* a worker thread takes the k-th future
StartWork(k) ==
    /\ futures[k].state = "pending"
    /\ futures' = [futures EXCEPT ![k].state = "running"]
    /\ UNCHANGED <<agents, yielded, manager_results, mpc>>
    /\ UNCHANGED <<engineVars, simVars>>

\* the k-th agent's analyze_code returns or raises in its worker thread
FinishWork(k) ==
    /\ futures[k].state = "running"
    /\ \E outcome \in AnalyzeCode(k) :
         futures' = [futures EXCEPT ![k] = [state |-> "finished",
                                            raised |-> outcome.raised,
                                            value |-> outcome.value]]
    /\ UNCHANGED <<agents, yielded, manager_results, mpc>>
    /\ UNCHANGED <<engineVars, simVars>>

\* lines 74-86: as_completed yields the k-th future and the loop handles it
Handle(k) ==
    /\ mpc = "collect"
    /\ futures[k].state = "finished"
    /\ \A i \in DOMAIN yielded : yielded[i] # k
    /\ yielded' = Append(yielded, k)
    /\ manager_results' = HandleFuture(manager_results, agents[k], futures[k])
    /\ UNCHANGED <<agents, futures, mpc>>
    /\ UNCHANGED <<engineVars, simVars>>

\* line 88, once as_completed is exhausted
ReturnResults ==
    /\ mpc = "collect"
    /\ Len(yielded) = Len(futures)
    /\ mpc' = "returned"
    /\ UNCHANGED <<agents, futures, yielded, manager_results>>
    /\ UNCHANGED <<engineVars, simVars>>

NextPool ==
    \/ OpenPool
    \/ Submit
    \/ \E k \in DOMAIN futures : StartWork(k)
    \/ \E k \in DOMAIN futures : FinishWork(k)
    \/ \E k \in DOMAIN futures : Handle(k)
    \/ ReturnResults

SpecPool == InitPool /\ [][NextPool]_vars

(***************************************************************************)
(* Properties of _cluster_findings and of the decision on the clusters.    *)
(***************************************************************************)
\* the places <<c, j>> of the clusters that hold position p
PlacesOf(p) ==
    UNION { {<<c, j>> : j \in {x \in DOMAIN clusters[c] : clusters[c][x] = p}} :
            c \in DOMAIN clusters }

Clustered == pc \in {"decide", "done"}

\* C1: the clusters _cluster_findings returns partition the input: every
\* position of the input is a member of exactly one cluster, exactly once,
\* and the clusters hold nothing else.
C1_ClustersPartitionInput ==
    Clustered =>
        /\ \A p \in 1..Len(all_findings) : Cardinality(PlacesOf(p)) = 1
        /\ \A c \in DOMAIN clusters :
              \A j \in DOMAIN clusters[c] :
                 clusters[c][j] \in 1..Len(all_findings)

\* a run whose three findings fall into a cluster of two and a cluster of one
C1_Witness ==
    /\ pc = "decide"
    /\ Len(all_findings) = 3
    /\ Len(clusters) = 2
    /\ Len(clusters[1]) = 2

Statistics == result["statistics"]

\* C2 as stated: consensus_count + rejected_count = total_findings.
C2_CountsAddUp ==
    pc = "done" =>
        Statistics.consensus_count + Statistics.rejected_count
            = Statistics.total_findings

RECURSIVE AgreementTotal(_, _)
AgreementTotal(found, i) ==
    IF i > Len(found) THEN 0
    ELSE found[i]["consensus_info"].agreement_count + AgreementTotal(found, i + 1)

\* C2 amended: the agreement counts of the consensus findings and
\* rejected_count add up to total_findings, and total_findings is the number
\* of findings the reviewer records hold.
C2_AgreementCountsAddUp ==
    pc = "done" =>
        /\ AgreementTotal(result["consensus_findings"], 1)
              + Statistics.rejected_count = Statistics.total_findings
        /\ Statistics.total_findings = Len(heap0)
        /\ Statistics.consensus_count = Len(result["consensus_findings"])
        /\ Statistics.rejected_count = Len(result["rejected_findings"])

\* a run of three findings with one consensus finding, which stands for
\* two of them, and one rejected finding
C2_Witness ==
    /\ pc = "done"
    /\ Statistics.total_findings = 3
    /\ Statistics.consensus_count = 1
    /\ Statistics.rejected_count = 1

\* the clusters of at least, and of fewer than, min_agreement members
IsLarge(cluster) == Len(cluster) >= min_agreement
IsSmall(cluster) == Len(cluster) < min_agreement
LargeClusters == SelectSeq(clusters, IsLarge)
SmallClusters == SelectSeq(clusters, IsSmall)

\* the references of the members of a list of clusters, in order
RECURSIVE MemberRefs(_, _)
MemberRefs(cls, c) ==
    IF c > Len(cls) THEN <<>>
    ELSE [j \in DOMAIN cls[c] |-> all_findings[cls[c][j]]] \o MemberRefs(cls, c + 1)

\* the reason text for a cluster of k members
ReasonText(k) ==
    CASE k = 1 -> "Only 1 agent(s) agreed"
      [] k = 2 -> "Only 2 agent(s) agreed"
      [] k = 3 -> "Only 3 agent(s) agreed"
      [] k = 4 -> "Only 4 agent(s) agreed"
      [] OTHER -> "Only many agent(s) agreed"

\* C3: each cluster of at least min_agreement members yields one consensus
\* finding, with agreement_count the cluster size and verified true; each
\* smaller cluster yields one rejected finding per member, whose reason
\* names the cluster size; so every agreement_count is at least
\* min_agreement and every reason names a count below it.
C3_OneOutcomePerCluster ==
    pc = "done" =>
        /\ Len(consensus_findings) = Len(LargeClusters)
        /\ \A i \in DOMAIN consensus_findings :
              LET info == consensus_findings[i]["consensus_info"]
              IN  /\ info.agreement_count = Len(LargeClusters[i])
                  /\ info.agreement_count >= min_agreement
                  /\ info.verified = TRUE
        /\ rejected_findings = MemberRefs(SmallClusters, 1)
        /\ \A c \in DOMAIN SmallClusters :
              \A j \in DOMAIN SmallClusters[c] :
                 LET f == heap[all_findings[SmallClusters[c][j]]]
                 IN  /\ "rejection_reason" \in DOMAIN f
                     /\ f["rejection_reason"] = ReasonText(Len(SmallClusters[c]))
                     /\ Len(SmallClusters[c]) < min_agreement
        /\ result["consensus_findings"] = consensus_findings
        /\ result["rejected_findings"] = rejected_findings

\* a run with min_agreement = 2 that ends with a consensus finding and with
\* a finding alone in its cluster, rejected
C3_Witness ==
    /\ pc = "done"
    /\ min_agreement = 2
    /\ Len(consensus_findings) >= 1
    /\ \E r \in DOMAIN rejected_findings :
          heap[rejected_findings[r]]["rejection_reason"] = "Only 1 agent(s) agreed"

(***************************************************************************)
(* Properties of _are_similar, on the pair finding1, finding2.              *)
(***************************************************************************)
\* what a finding says, read off the finding itself; a finding with no file
\* path has the path None, one with no start line has line 0
CategoriesOf(f) ==
    IF "cwe" \in DOMAIN f THEN {f["cwe"][i] : i \in DOMAIN f["cwe"]} ELSE {}

HasTargetKey(f, k) == "target" \in DOMAIN f /\ k \in DOMAIN f["target"]

PathOf(f) == IF HasTargetKey(f, "file_path") THEN f["target"]["file_path"] ELSE None

StartLineOf(f) == IF HasTargetKey(f, "start_line") THEN f["target"]["start_line"] ELSE 0

WordsOf(f) ==
    IF "finding_description" \in DOMAIN f
    THEN {LowerWord(f["finding_description"][i]) : i \in DOMAIN f["finding_description"]}
    ELSE {}

LineDistance(a, b) ==
    IF StartLineOf(a) >= StartLineOf(b)
    THEN StartLineOf(a) - StartLineOf(b)
    ELSE StartLineOf(b) - StartLineOf(a)

CommonCategories(a, b) == Cardinality(CategoriesOf(a) \cap CategoriesOf(b))
AllCategories(a, b) == Cardinality(CategoriesOf(a) \cup CategoriesOf(b))
CommonWords(a, b) == Cardinality(WordsOf(a) \cap WordsOf(b))

\* signal 1: both category sets non-empty and |intersection| / |union| > 0.5
CategorySignal(a, b) ==
    /\ CategoriesOf(a) # {}
    /\ CategoriesOf(b) # {}
    /\ 2 * CommonCategories(a, b) > AllCategories(a, b)

\* signal 2: identical file paths and start lines less than 5 apart
LocationSignal(a, b) == PathOf(a) = PathOf(b) /\ LineDistance(a, b) < 5

\* signal 3: more than 3 common words
WordSignal(a, b) == CommonWords(a, b) > 3

\* C4: _are_similar(a, b) is true exactly when one of the three signals
\* holds.  Two findings of the same file with start lines 10 and 12 are
\* similar; start lines exactly 5 apart, an overlap of exactly 0.5, or
\* exactly 3 common words do not by themselves make a pair similar.
C4_SimilarIffSomeSignal ==
    verdict.done =>
        LET a == finding1
            b == finding2
        IN  /\ verdict.forward <=>
                  (CategorySignal(a, b) \/ LocationSignal(a, b) \/ WordSignal(a, b))
            /\ (/\ HasTargetKey(a, "file_path")
                /\ PathOf(a) = PathOf(b)
                /\ StartLineOf(a) = 10
                /\ StartLineOf(b) = 12) => verdict.forward
            /\ (/\ LineDistance(a, b) = 5
                /\ ~CategorySignal(a, b)
                /\ ~WordSignal(a, b)) => ~verdict.forward
            /\ (/\ 2 * CommonCategories(a, b) = AllCategories(a, b)
                /\ ~LocationSignal(a, b)
                /\ ~WordSignal(a, b)) => ~verdict.forward
            /\ (/\ CommonWords(a, b) = 3
                /\ ~CategorySignal(a, b)
                /\ ~LocationSignal(a, b)) => ~verdict.forward

\* two findings of app.py at lines 10 and 12 that share no category and
\* fewer than 4 words, judged similar
C4_Witness ==
    /\ verdict.done
    /\ verdict.forward
    /\ PathOf(finding1) = "app.py"
    /\ PathOf(finding2) = "app.py"
    /\ StartLineOf(finding1) = 10
    /\ StartLineOf(finding2) = 12
    /\ CategoriesOf(finding1) # {}
    /\ CategoriesOf(finding2) # {}
    /\ CommonCategories(finding1, finding2) = 0
    /\ CommonWords(finding1, finding2) < 4

\* C5: _are_similar is symmetric, also for findings with absent categories,
\* location or description.
C5_SimilarIsSymmetric ==
    verdict.done => (verdict.forward = verdict.backward)

\* a pair similar by its descriptions alone, one finding with no categories
\* and the other with no location
C5_Witness ==
    /\ verdict.done
    /\ verdict.forward
    /\ "cwe" \notin DOMAIN finding1
    /\ "target" \notin DOMAIN finding2
    /\ ~LocationSignal(finding1, finding2)
    /\ WordsOf(finding1) # WordsOf(finding2)
    /\ CommonWords(finding1, finding2) > 3

(***************************************************************************)
(* Properties of build_consensus as a whole.                               *)
(***************************************************************************)
\* the statistics of the run on the same input with threshold m
StatisticsWith(m) ==
    BuildConsensus(agent_results, heap0, m).result["statistics"]

\* C6: for a fixed input, a run with a threshold m2 >= m1 has a
\* consensus_count no greater, and a rejected_count no smaller, than the
\* run with m1 (m1 is the threshold of the run made, m2 any greater one).
C6_RaisingThresholdIsMonotone ==
    pc = "done" =>
        \A m \in min_agreement..MaxAgreement :
            LET raised == StatisticsWith(m)
            IN  /\ raised.consensus_count <= Statistics.consensus_count
                /\ raised.rejected_count >= Statistics.rejected_count

\* a run with threshold 2 that has a consensus finding which the threshold 3
\* turns into rejected findings
C6_Witness ==
    /\ pc = "done"
    /\ min_agreement = 2
    /\ Statistics.consensus_count = 1
    /\ StatisticsWith(3).consensus_count = 0
    /\ StatisticsWith(3).rejected_count > Statistics.rejected_count

\* C7: build_consensus leaves every finding object passed in with the
\* fields and values it had before the run.
C7_InputLeftUnchanged ==
    pc = "done" => heap = heap0

\* the reviewers named by the members of a cluster
ReviewersOf(cluster) ==
    {heap[all_findings[cluster[j]]]["source_agent"] : j \in DOMAIN cluster}

\* C8: the source_agents of every consensus finding name at least
\* min_agreement distinct reviewers, and the count in a rejected finding's
\* reason is the number of reviewers that concurred on it.
C8_IndependentlyCorroborated ==
    pc = "done" =>
        /\ \A i \in DOMAIN consensus_findings :
              Cardinality(ToSet(consensus_findings[i]["consensus_info"].source_agents))
                  >= min_agreement
        /\ \A c \in DOMAIN SmallClusters :
              \A j \in DOMAIN SmallClusters[c] :
                 heap[all_findings[SmallClusters[c][j]]]["rejection_reason"]
                     = ReasonText(Cardinality(ReviewersOf(SmallClusters[c])))

\* the members of the cluster the i-th consensus finding was built from
MembersOf(i) ==
    [j \in DOMAIN LargeClusters[i] |-> heap[all_findings[LargeClusters[i][j]]]]

ConfidenceOf(f) == IF "confidence" \in DOMAIN f THEN f["confidence"] ELSE 50

\* member b has the highest confidence, and is the earliest that has it
IsEarliestHighest(members, b) ==
    /\ \A j \in DOMAIN members : ConfidenceOf(members[j]) <= ConfidenceOf(members[b])
    /\ \A j \in DOMAIN members :
          j < b => ConfidenceOf(members[j]) < ConfidenceOf(members[b])

\* the consensus finding has the fields of the member, and consensus_info
CarriesFieldsOf(consensus, member) ==
    /\ DOMAIN consensus = (DOMAIN member) \cup {"consensus_info"}
    /\ \A k \in DOMAIN member : consensus[k] = member[k]

\* C9: a consensus finding is built on the member of its cluster with the
\* highest confidence (0.5 when absent), the earliest in cluster order of
\* several such, and carries that member's description, severity, location
\* and remediation unchanged.
C9_BaseIsEarliestHighestConfidence ==
    pc = "done" =>
        \A i \in DOMAIN consensus_findings :
            \E b \in DOMAIN MembersOf(i) :
                /\ IsEarliestHighest(MembersOf(i), b)
                /\ CarriesFieldsOf(consensus_findings[i], MembersOf(i)[b])

\* a consensus finding whose cluster has a member with no confidence first
\* and then two different members that share the highest confidence
C9_Witness ==
    /\ pc = "done"
    /\ \E i \in DOMAIN consensus_findings :
          \E b \in DOMAIN MembersOf(i), j \in DOMAIN MembersOf(i) :
             /\ IsEarliestHighest(MembersOf(i), b)
             /\ b > 1
             /\ j > b
             /\ ConfidenceOf(MembersOf(i)[j]) = ConfidenceOf(MembersOf(i)[b])
             /\ MembersOf(i)[j] # MembersOf(i)[b]
             /\ "confidence" \notin DOMAIN MembersOf(i)[1]

\* a reviewer record with an empty or absent findings list
HasNoFindings(record) ==
    "findings" \notin DOMAIN record \/ record["findings"] = <<>>

\* the list without its k-th element
Without(list, k) ==
    [i \in 1..(Len(list) - 1) |-> IF i < k THEN list[i] ELSE list[i + 1]]

\* the findings and statistics a run ends with: its consensus findings, its
\* rejected findings (the objects, as the run leaves them) and its statistics
Outcome(run) ==
    <<run.result["consensus_findings"],
      Deref(run.result["rejected_findings"], run.heap),
      run.result["statistics"]>>

\* the run made and the run without record k end with the same findings
\* and statistics
SameOutcomeWithout(k) ==
    Outcome(BuildConsensus(Without(agent_results, k), heap0, min_agreement))
        = Outcome([result |-> result, heap |-> heap])

\* C10: a reviewer record with an empty or absent findings list, with or
\* without an error, contributes nothing: the run does not fail, its
\* findings and statistics are those of the run without that record, and
\* total_agents counts every record; an empty reviewer list gives
\* total_agents = 0, statistics of zero and two empty lists.
C10_EmptyRecordContributesNothing ==
    /\ pc = "collect" => ENABLED Collect
    /\ pc = "done" =>
        /\ result["total_agents"] = Len(agent_results)
        /\ \A k \in DOMAIN agent_results :
              HasNoFindings(agent_results[k]) => SameOutcomeWithout(k)
        /\ agent_results = <<>> =>
              /\ result["total_agents"] = 0
              /\ result["consensus_findings"] = <<>>
              /\ result["rejected_findings"] = <<>>
              /\ Statistics = [total_findings |-> 0, consensus_count |-> 0,
                               rejected_count |-> 0]

\* a run whose first record holds an error and no findings, and whose second
\* record's findings end in a consensus finding
C10_Witness ==
    /\ pc = "done"
    /\ Len(agent_results) = 2
    /\ "error" \in DOMAIN agent_results[1]
    /\ HasNoFindings(agent_results[1])
    /\ Statistics.consensus_count >= 1

(***************************************************************************)
(* Properties of analyze_code_multi_agent.                                 *)
(***************************************************************************)
\* the record the loop over as_completed owes the k-th agent
RecordOwed(k) ==
    IF futures[k].raised
    THEN [agent |-> agents[k], error |-> futures[k].value, findings |-> <<>>]
    ELSE futures[k].value

\* the i-th record collected is the one owed to the i-th future yielded
CollectedInStep ==
    /\ Len(manager_results) = Len(yielded)
    /\ \A i \in DOMAIN yielded : manager_results[i] = RecordOwed(yielded[i])

\* C11: under every interleaving of the worker threads and every
\* combination of returning and raising agents, the list returned by
\* analyze_code_multi_agent holds exactly one record per configured agent:
\* the record the agent returned, or, for an agent that raised, a record
\* with its name, the error string and an empty findings list.  No agent's
\* failure aborts the call or removes another agent's record: the records
\* collected so far are kept, the call is never stuck while a future is
\* outstanding, and it only raises when no agent is configured.
C11_OneRecordPerAgent ==
    /\ CollectedInStep
    /\ \A i \in DOMAIN yielded, j \in DOMAIN yielded :
          yielded[i] = yielded[j] => i = j
    /\ mpc = "returned" =>
          /\ Len(manager_results) = Len(agents)
          /\ \A k \in DOMAIN agents :
                \E i \in DOMAIN manager_results :
                   /\ yielded[i] = k
                   /\ manager_results[i] = RecordOwed(k)
    /\ mpc = "raised" => agents = <<>>
    /\ mpc \in {"open", "submit", "collect"} => ENABLED NextPool

\* two agents: the first raised, the second returned a finding, and the
\* second's record was collected before the first's placeholder
C11_Witness ==
    /\ mpc = "returned"
    /\ Len(agents) = 2
    /\ futures[1].raised
    /\ ~futures[2].raised
    /\ manager_results =
          <<[agent |-> "agent2", findings |-> <<2>>],
            [agent |-> "agent1", error |-> "timed out", findings |-> <<>>]>>

(***************************************************************************)
(* Properties of the aggregation and of the order of the output.           *)
(***************************************************************************)
\* the sum of the members' confidences in hundredths, absent counted as 0.5
RECURSIVE TotalOf(_)
TotalOf(members) ==
    IF members = <<>> THEN 0
    ELSE ConfidenceOf(Head(members)) + TotalOf(Tail(members))

\* value r, in hundredths, is a hundredth nearest to total / count
IsRoundedMean(r, total, count) ==
    /\ 2 * (count * r - total) <= count
    /\ 2 * (total - count * r) <= count

\* C12: the consensus_confidence of every consensus finding is the
\* arithmetic mean of the confidences of all members of its source cluster,
\* an absent confidence counted as 0.5, rounded to 2 decimal places; and
\* findings that are all tagged CWE-89 only form a single cluster.
C12_ConfidenceIsRoundedMean ==
    pc = "done" =>
        /\ Len(consensus_findings) = Len(LargeClusters)
        /\ (\A p \in DOMAIN all_findings :
               CategoriesOf(heap[all_findings[p]]) = {"CWE-89"})
              => Len(clusters) <= 1
        /\ \A i \in DOMAIN consensus_findings :
              IsRoundedMean(
                 consensus_findings[i]["consensus_info"].consensus_confidence,
                 TotalOf(MembersOf(i)),
                 Len(MembersOf(i)))

\* a cluster of three, one member without a confidence, whose mean is not
\* a whole number of hundredths and was rounded up
C12_Witness ==
    /\ pc = "done"
    /\ Len(consensus_findings) = 1
    /\ Len(MembersOf(1)) = 3
    /\ \E j \in 1..3 : "confidence" \notin DOMAIN MembersOf(1)[j]
    /\ 3 * consensus_findings[1]["consensus_info"].consensus_confidence
          > TotalOf(MembersOf(1))

\* the finding at input position p
FindingAt(p) == heap[all_findings[p]]

\* one of the three signals of similarity holds
SomeSignal(a, b) ==
    CategorySignal(a, b) \/ LocationSignal(a, b) \/ WordSignal(a, b)

\* C13: in every cluster returned by _cluster_findings the first element,
\* the seed, has the smallest input position of the cluster; every other
\* member is similar to the seed; and no member of a cluster opened later
\* is similar to the seed of a cluster opened earlier.  (Stated of the
\* clusters as _cluster_findings has just returned them.)
C13_GreedySeedOnly ==
    (pc = "decide" /\ idx = 1) =>
        /\ \A c \in DOMAIN clusters :
              /\ clusters[c] # <<>>
              /\ \A j \in DOMAIN clusters[c] :
                    j > 1 =>
                       /\ clusters[c][1] < clusters[c][j]
                       /\ SomeSignal(FindingAt(clusters[c][1]),
                                     FindingAt(clusters[c][j]))
        /\ \A c \in DOMAIN clusters, d \in DOMAIN clusters :
              c < d =>
                 \A j \in DOMAIN clusters[d] :
                    ~SomeSignal(FindingAt(clusters[c][1]),
                                FindingAt(clusters[d][j]))

\* a cluster of three whose two later members are similar to the seed and
\* not to each other
C13_Witness ==
    /\ pc = "decide"
    /\ idx = 1
    /\ \E c \in DOMAIN clusters :
          /\ Len(clusters[c]) = 3
          /\ ~SomeSignal(FindingAt(clusters[c][2]), FindingAt(clusters[c][3]))

\* the qualifying clusters among those the loop of lines 44-53 has passed
LargePassed == SelectSeq(SubSeq(clusters, 1, idx - 1), IsLarge)

\* the reviewers of the members of a cluster, in cluster order
SourcesOf(cluster) ==
    [j \in DOMAIN cluster |-> FindingAt(cluster[j])["source_agent"]]

\* every finding of every reviewer record carries that record's reviewer id
AllTagged ==
    \A k \in DOMAIN agent_results :
       "findings" \in DOMAIN agent_results[k] =>
          \A j \in DOMAIN agent_results[k]["findings"] :
             LET f == heap[agent_results[k]["findings"][j]]
             IN  /\ "source_agent" \in DOMAIN f
                 /\ f["source_agent"] =
                       (IF "agent" \in DOMAIN agent_results[k]
                        THEN agent_results[k]["agent"] ELSE "unknown")

\* C14: every finding carries its source reviewer id when clustering
\* starts; the clusters come in increasing order of their seeds' input
\* positions and the members of a cluster in increasing input position;
\* consensus_findings holds one entry per qualifying cluster, in cluster
\* order, at every moment of the loop over the clusters; and each
\* entry's source_agents lists the reviewers of the members in cluster order.
C14_OutputFollowsDiscoveryOrder ==
    /\ pc \in {"cluster", "decide", "done"} => AllTagged
    /\ pc \in {"decide", "done"} =>
          /\ \A c \in DOMAIN clusters, d \in DOMAIN clusters :
                c < d => clusters[c][1] < clusters[d][1]
          /\ \A c \in DOMAIN clusters :
                \A j \in DOMAIN clusters[c], k \in DOMAIN clusters[c] :
                   j < k => clusters[c][j] < clusters[c][k]
          /\ Len(consensus_findings) = Len(LargePassed)
          /\ \A i \in DOMAIN consensus_findings :
                LET info == consensus_findings[i]["consensus_info"]
                IN  /\ info.source_agents = SourcesOf(LargePassed[i])
                    /\ info.agreement_count = Len(LargePassed[i])
                    /\ \E j \in DOMAIN LargePassed[i] :
                          CarriesFieldsOf(consensus_findings[i],
                                          FindingAt(LargePassed[i][j]))

\* two qualifying clusters, the first made of the first and the third
\* finding, which two different reviewers reported
C14_Witness ==
    /\ pc = "done"
    /\ clusters = << <<1, 3>>, <<2>> >>
    /\ Len(consensus_findings) = 2
    /\ consensus_findings[1]["consensus_info"].source_agents = <<"agent1", "agent2">>
    /\ consensus_findings[2]["consensus_info"].source_agents = <<"agent2">>

\* neither finding has a location, or neither has a file path and their
\* start lines (0 when absent) are less than 5 apart
BothWithoutPlace(a, b) ==
    \/ "target" \notin DOMAIN a /\ "target" \notin DOMAIN b
    \/ /\ ~HasTargetKey(a, "file_path")
       /\ ~HasTargetKey(b, "file_path")
       /\ LineDistance(a, b) < 5

\* the two findings share no weakness category and no description word
NothingShared(a, b) ==
    /\ CategoriesOf(a) \cap CategoriesOf(b) = {}
    /\ WordsOf(a) \cap WordsOf(b) = {}

\* position p is in one of the first c clusters
InFirstClusters(p, c) ==
    \E d \in 1..c : \E j \in DOMAIN clusters[d] : clusters[d][j] = p

\* C15: two findings that both lack a location, or both lack a file path
\* and have start lines less than 5 apart (0 when absent), are judged
\* similar by _are_similar, whatever else they hold; so in a run, when a
\* cluster is opened by such a finding, every later finding that pairs with
\* it in this way is in that cluster or in one opened before it, and no two
\* clusters are opened by findings without a location.
C15_AbsentLocationMatches ==
    /\ (verdict.done /\ BothWithoutPlace(finding1, finding2)) =>
          (verdict.forward /\ verdict.backward)
    /\ (pc = "decide" /\ idx = 1) =>
          /\ \A c \in DOMAIN clusters :
                \A p \in DOMAIN all_findings :
                   (/\ clusters[c][1] < p
                    /\ BothWithoutPlace(FindingAt(clusters[c][1]), FindingAt(p)))
                      => InFirstClusters(p, c)
          /\ \A c \in DOMAIN clusters, d \in DOMAIN clusters :
                (/\ "target" \notin DOMAIN FindingAt(clusters[c][1])
                 /\ "target" \notin DOMAIN FindingAt(clusters[d][1]))
                   => c = d

\* a run whose second cluster is opened by a finding without a location and
\* takes a later finding that has no file path and shares no category and
\* no word with it
C15_Witness ==
    /\ pc = "decide"
    /\ idx = 1
    /\ Len(clusters) >= 2
    /\ Len(clusters[2]) >= 2
    /\ "target" \notin DOMAIN FindingAt(clusters[2][1])
    /\ BothWithoutPlace(FindingAt(clusters[2][1]), FindingAt(clusters[2][2]))
    /\ NothingShared(FindingAt(clusters[2][1]), FindingAt(clusters[2][2]))
====
